---- MODULE Spec2Model ----
(***************************************************************************)
(* A model of ts_hashmap.c: a fixed-capacity hash table with separate      *)
(* chaining, guarded by one pthread mutex.  initmap builds the map, threads *)
(* call get, put and del, and freeMap releases it;                         *)
(* every statement group of each function is one action, so that what      *)
(* happens between pthread_mutex_lock and pthread_mutex_unlock is visible. *)
(* The heap is a partial function from addresses to entries: malloc        *)
(* extends its domain (or fails), free shrinks it, and reading an address  *)
(* outside the domain is an evaluation error rather than a value.          *)
(***************************************************************************)
EXTENDS Integers, Sequences, FiniteSets, TLC

\* ------------------------------------------------------------------ bounds
NThreads == 2       \* threads sharing the map
MaxCalls == 2       \* calls each thread issues
MaxEntries == 3     \* heap cells malloc can hand out before it must fail
SeqCalls == 3       \* calls of the sequential driver

\* --------------------------------------------------------------- constants
INT_MAX == 2147483647
NULL == 0
UNLOCKED == 0

Threads == 1..NThreads
Addr == 1..MaxEntries
Capacities == {1, 3}
Values == {7, INT_MAX}

\* 2^32 modulo cap, from 2^32 = 2 * (INT_MAX + 1): the numbers of the model
\* checker are 32-bit, so the unsigned range is never written out
WrapMod(cap) == (2 * (((INT_MAX % cap) + 1) % cap)) % cap

\* mutant: the remainder of the signed key, as key % map->capacity gives it
BucketIndexSigned(k, cap) ==
  IF k < 0 THEN 0 - ((0 - k) % cap) ELSE k % cap

\* (unsigned int)key % map->capacity: a negative key converts to key + 2^32
BucketIndex(k, cap) ==
  IF k < 0 THEN ((k % cap) + WrapMod(cap)) % cap ELSE k % cap

\* ------------------------------------------------------------------- state
VARIABLES
  map,      \* the ts_hashmap_t: capacity, size, numOps, table
  heap,     \* the live ts_entry_t cells: address -> [key, value, next]
  lock,     \* map->lock: UNLOCKED or the thread holding it
  pc,       \* each thread's position
  loc,      \* each thread's parameters and local variables
  calls,    \* each thread's number of completed calls
  driver,   \* the harness issuing the calls: kind "any", "seq", "disjoint" or
            \* "same", "scenario", "create", "teardown", "fair", and the key of the same-key harness
  snap,     \* history: the map and heap when the lock was last acquired, and by whom
  hist,     \* history: the completed calls in order (one-thread drivers only)
  expect,   \* history: per key, what its owner's calls leave (disjoint driver only)
  mem       \* the storage malloc and pthread_mutex_init handed out for the map
            \* itself, what initmap returned, and the releases in order

vars == <<map, heap, lock, pc, loc, calls, driver, snap, hist, expect, mem>>

NoPtr == <<"none", 0>>
TablePtr(i) == <<"table", i>>
NextPtr(a) == <<"next", a>>

NoLocals ==
  [key |-> 0, value |-> 0, index |-> 0, entry |-> NULL, ptr |-> NoPtr,
   newEntry |-> NULL, temp |-> NULL, retval |-> 0, i |-> 0, next |-> NULL]

\* the storage of a map that initmap returned: the ts_hashmap_t, its table and
\* its mutex are live, and nothing has been released yet; events is the
\* history of releases and of freeMap's lock operations, in order
LiveMem ==
  [handle |-> "map", map |-> "live", table |-> "live", mutex |-> "init",
   events |-> <<>>]

\* initmap(capacity) when every allocation and the mutex initialisation succeed
initmap(cap) ==
  [capacity |-> cap, size |-> 0, numOps |-> 0, table |-> [i \in 0..(cap - 1) |-> NULL]]

\* before initmap has run: no storage, no handle, and a struct without buckets
NoMem ==
  [handle |-> "unset", map |-> "none", table |-> "none", mutex |-> "none",
   events |-> <<>>]

\* malloc(sizeof(ts_entry_t *) * capacity): a negative capacity converts to a
\* size_t within 2^34 of the top of the 64-bit range, which no allocation can
\* satisfy; zero bytes may yield NULL or a pointer; anything else may succeed
TableMayFit(cap) == cap >= 0

\* initmap: malloc of the ts_hashmap_t returned NULL
InitNoMap(cap) ==
  /\ mem.handle = "unset"
  /\ mem' = [mem EXCEPT !.handle = "null"]
  /\ UNCHANGED <<map, heap, lock, pc, loc, calls, driver, snap, hist, expect>>

\* initmap: malloc of the table returned NULL; the ts_hashmap_t is freed
InitNoTable(cap) ==
  /\ mem.handle = "unset"
  /\ mem' = [mem EXCEPT !.handle = "null", !.map = "freed",
                         !.events = Append(@, <<"map", 0>>)]
  /\ UNCHANGED <<map, heap, lock, pc, loc, calls, driver, snap, hist, expect>>

\* initmap: pthread_mutex_init failed; the table and the ts_hashmap_t are freed
InitNoMutex(cap) ==
  /\ mem.handle = "unset"
  /\ TableMayFit(cap)
  /\ mem' = [mem EXCEPT !.handle = "null", !.table = "freed", !.map = "freed",
                         !.events = @ \o << <<"table", 0>>, <<"map", 0>> >>]
  /\ UNCHANGED <<map, heap, lock, pc, loc, calls, driver, snap, hist, expect>>

\* initmap: every allocation and the mutex initialisation succeeded
InitOk(cap) ==
  /\ mem.handle = "unset"
  /\ TableMayFit(cap)
  /\ map' = initmap(cap)
  /\ mem' = LiveMem
  /\ snap' = [map |-> initmap(cap), heap |-> heap, by |-> UNLOCKED]
  /\ UNCHANGED <<heap, lock, pc, loc, calls, driver, hist, expect>>

\* *ptr
Deref(p) == IF p[1] = "table" THEN map.table[p[2]] ELSE heap[p[2]].next

\* The addresses of the chain that starts at a, in link order.
RECURSIVE ChainN(_, _, _)
ChainN(hp, a, n) ==
  IF a = NULL \/ a \notin DOMAIN hp \/ n = 0 THEN <<>>
  ELSE <<a>> \o ChainN(hp, hp[a].next, n - 1)

Chain(hp, a) == ChainN(hp, a, MaxEntries + 1)

\* ---------------------------------------------------------------- the lock
\* mutant: the mutex admits a thread while another holds it
MutexAlwaysFree == TRUE

\* pthread_mutex_lock returns only when no thread holds the mutex
MutexFree == lock = UNLOCKED

Acquire(t) ==
  /\ MutexFree
  /\ lock' = t
  /\ snap' = [map |-> map, heap |-> heap, by |-> t]

\* the call thread t is about to return from, as the histories record it
OpOf(p) ==
  CASE p \in {"get_lock", "get_loop", "get_unlock"} -> "get"
    [] p \in {"del_lock", "del_loop", "del_free", "del_unlock"} -> "del"
    [] p = "idle" -> "none"
    [] OTHER -> "put"

CallRecord(t) ==
  [op |-> OpOf(pc[t]), key |-> loc[t].key, value |-> loc[t].value,
   ret |-> loc[t].retval, newEntry |-> loc[t].newEntry,
   pre |-> [map |-> snap.map, heap |-> snap.heap],
   post |-> [map |-> map, heap |-> heap]]

\* what the key's owner expects of it after the call: "kept" follows the
\* allocation's outcome, "ideal" takes every put to store its value
Expected(e, c) ==
  CASE c.op = "put" ->
         [kept |-> IF e.kept # {} \/ c.newEntry # NULL THEN {c.value} ELSE {},
          ideal |-> {c.value}]
    [] c.op = "del" -> [kept |-> {}, ideal |-> {}]
    [] OTHER -> e

Observe(t) ==
  /\ hist' = IF driver.kind \in {"seq", "scenario"}
               THEN Append(hist, CallRecord(t)) ELSE hist
  /\ expect' = IF driver.kind \in {"disjoint", "same"}
                 THEN [expect EXCEPT ![loc[t].key] = Expected(@, CallRecord(t))]
                 ELSE expect

\* pthread_mutex_unlock, then the return to the caller
Release(t) ==
  /\ lock' = UNLOCKED
  /\ pc' = [pc EXCEPT ![t] = "idle"]
  /\ loc' = [loc EXCEPT ![t] = NoLocals]
  /\ calls' = [calls EXCEPT ![t] = @ + 1]
  /\ Observe(t)
  /\ UNCHANGED <<map, heap, snap, driver, mem>>

Bump(m) == [m EXCEPT !.numOps = @ + 1]

\* ------------------------------------------------------------- the callers
KeyList == <<-1, 1, 3>>
Keys == {KeyList[i] : i \in DOMAIN KeyList}

\* the disjoint key ranges: the thread that alone uses key k
Owner(k) == ((CHOOSE i \in DOMAIN KeyList : KeyList[i] = k) % NThreads) + 1

\* the scripted calls of the single-threaded scenario, in order
Script ==
  <<[op |-> "put", key |-> 1, value |-> 100],
    [op |-> "put", key |-> 5, value |-> 200],
    [op |-> "get", key |-> 1, value |-> 0],
    [op |-> "get", key |-> 5, value |-> 0],
    [op |-> "del", key |-> 1, value |-> 0],
    [op |-> "get", key |-> 1, value |-> 0]>>

\* the calls the harness lets thread t issue
May(t, op, k, v) ==
  CASE driver.kind = "any" -> calls[t] < MaxCalls /\ v \in Values \cup {0}
    [] driver.kind = "seq" -> t = 1 /\ calls[t] < SeqCalls /\ v \in Values \cup {0}
    [] driver.kind = "disjoint" ->
         calls[t] < MaxCalls /\ Owner(k) = t /\ v \in Values \cup {0}
    [] driver.kind = "same" ->
         calls[t] = 0 /\ op = "put" /\ k = driver.key /\ v = t
    [] driver.kind = "create" ->
         \* nothing is called on a NULL handle, nor on a table without buckets,
         \* where the index computation would divide by zero
         /\ mem.handle = "map"
         /\ map.capacity > 0
         /\ calls[t] = 0
         /\ op = "put"
         /\ v \in Values
    [] driver.kind = "fair" -> calls[t] = 0 /\ v \in Values \cup {0}
    [] driver.kind = "teardown" -> t = 1 /\ calls[t] = 0 /\ op = "freeMap"
    [] driver.kind = "scenario" ->
         /\ t = 1
         /\ calls[t] < Len(Script)
         /\ [op |-> op, key |-> k, value |-> v] = Script[calls[t] + 1]

\* --------------------------------------------------------------------- get
GetCall(t, k) ==
  /\ pc[t] = "idle"
  /\ May(t, "get", k, 0)
  /\ pc' = [pc EXCEPT ![t] = "get_lock"]
  /\ loc' = [loc EXCEPT ![t] = [NoLocals EXCEPT !.key = k,
                                  !.index = BucketIndex(k, map.capacity)]]
  /\ UNCHANGED <<map, heap, lock, calls, snap, driver, hist, expect, mem>>

GetLock(t) ==
  /\ pc[t] = "get_lock"
  /\ Acquire(t)
  /\ pc' = [pc EXCEPT ![t] = "get_loop"]
  /\ loc' = [loc EXCEPT ![t].entry = map.table[loc[t].index]]
  /\ UNCHANGED <<map, heap, calls, driver, hist, expect, mem>>

\* mutant: the hit returns the entry's key, not its value
GetHitReturnsKey(t) ==
  /\ pc[t] = "get_loop"
  /\ loc[t].entry # NULL
  /\ heap[loc[t].entry].key = loc[t].key
  /\ loc' = [loc EXCEPT ![t].retval = heap[loc[t].entry].key]
  /\ map' = Bump(map)
  /\ pc' = [pc EXCEPT ![t] = "get_unlock"]
  /\ UNCHANGED <<heap, lock, calls, snap, driver, hist, expect, mem>>

\* mutant: the hit increments map->size instead of map->numOps
GetHitCountsSize(t) ==
  /\ pc[t] = "get_loop"
  /\ loc[t].entry # NULL
  /\ heap[loc[t].entry].key = loc[t].key
  /\ loc' = [loc EXCEPT ![t].retval = heap[loc[t].entry].value]
  /\ map' = [map EXCEPT !.size = @ + 1]
  /\ pc' = [pc EXCEPT ![t] = "get_unlock"]
  /\ UNCHANGED <<heap, lock, calls, snap, driver, hist, expect, mem>>

GetHit(t) ==
  /\ pc[t] = "get_loop"
  /\ loc[t].entry # NULL
  /\ heap[loc[t].entry].key = loc[t].key
  /\ loc' = [loc EXCEPT ![t].retval = heap[loc[t].entry].value]
  /\ map' = Bump(map)
  /\ pc' = [pc EXCEPT ![t] = "get_unlock"]
  /\ UNCHANGED <<heap, lock, calls, snap, driver, hist, expect, mem>>

GetNext(t) ==
  /\ pc[t] = "get_loop"
  /\ loc[t].entry # NULL
  /\ heap[loc[t].entry].key # loc[t].key
  /\ loc' = [loc EXCEPT ![t].entry = heap[loc[t].entry].next]
  /\ UNCHANGED <<map, heap, lock, pc, calls, snap, driver, hist, expect, mem>>

\* mutant: the miss path forgets map->numOps++
GetMissUncounted(t) ==
  /\ pc[t] = "get_loop"
  /\ loc[t].entry = NULL
  /\ loc' = [loc EXCEPT ![t].retval = INT_MAX]
  /\ pc' = [pc EXCEPT ![t] = "get_unlock"]
  /\ UNCHANGED <<map, heap, lock, calls, snap, driver, hist, expect, mem>>

GetMiss(t) ==
  /\ pc[t] = "get_loop"
  /\ loc[t].entry = NULL
  /\ map' = Bump(map)
  /\ loc' = [loc EXCEPT ![t].retval = INT_MAX]
  /\ pc' = [pc EXCEPT ![t] = "get_unlock"]
  /\ UNCHANGED <<heap, lock, calls, snap, driver, hist, expect, mem>>

\* mutant: the return after a get leaves the mutex locked
GetUnlockKeepsLock(t) ==
  /\ pc[t] = "get_unlock"
  /\ pc' = [pc EXCEPT ![t] = "idle"]
  /\ loc' = [loc EXCEPT ![t] = NoLocals]
  /\ calls' = [calls EXCEPT ![t] = @ + 1]
  /\ Observe(t)
  /\ UNCHANGED <<map, heap, lock, snap, driver, mem>>

GetUnlock(t) ==
  /\ pc[t] = "get_unlock"
  /\ Release(t)

\* --------------------------------------------------------------------- put
PutCall(t, k, v) ==
  /\ pc[t] = "idle"
  /\ May(t, "put", k, v)
  /\ pc' = [pc EXCEPT ![t] = "put_lock"]
  /\ loc' = [loc EXCEPT ![t] = [NoLocals EXCEPT !.key = k, !.value = v,
                                  !.retval = INT_MAX,
                                  !.index = BucketIndex(k, map.capacity)]]
  /\ UNCHANGED <<map, heap, lock, calls, snap, driver, hist, expect, mem>>

PutLock(t) ==
  /\ pc[t] = "put_lock"
  /\ Acquire(t)
  /\ pc' = [pc EXCEPT ![t] = "put_loop"]
  /\ loc' = [loc EXCEPT ![t].ptr = TablePtr(loc[t].index)]
  /\ UNCHANGED <<map, heap, calls, driver, hist, expect, mem>>

\* mutant: the hit returns the old value and does not store the new one
PutHitKeepsOld(t) ==
  /\ pc[t] = "put_loop"
  /\ Deref(loc[t].ptr) # NULL
  /\ heap[Deref(loc[t].ptr)].key = loc[t].key
  /\ loc' = [loc EXCEPT ![t].retval = heap[Deref(loc[t].ptr)].value]
  /\ map' = Bump(map)
  /\ pc' = [pc EXCEPT ![t] = "put_unlock"]
  /\ UNCHANGED <<heap, lock, calls, snap, driver, hist, expect, mem>>

\* mutant: the hit stores the new value and does not capture the old one
PutHitDropsOld(t) ==
  /\ pc[t] = "put_loop"
  /\ Deref(loc[t].ptr) # NULL
  /\ heap[Deref(loc[t].ptr)].key = loc[t].key
  /\ heap' = [heap EXCEPT ![Deref(loc[t].ptr)].value = loc[t].value]
  /\ map' = Bump(map)
  /\ pc' = [pc EXCEPT ![t] = "put_unlock"]
  /\ UNCHANGED <<lock, loc, calls, snap, driver, hist, expect, mem>>

PutHit(t) ==
  /\ pc[t] = "put_loop"
  /\ Deref(loc[t].ptr) # NULL
  /\ heap[Deref(loc[t].ptr)].key = loc[t].key
  /\ loc' = [loc EXCEPT ![t].retval = heap[Deref(loc[t].ptr)].value]
  /\ heap' = [heap EXCEPT ![Deref(loc[t].ptr)].value = loc[t].value]
  /\ map' = Bump(map)
  /\ pc' = [pc EXCEPT ![t] = "put_unlock"]
  /\ UNCHANGED <<lock, calls, snap, driver, hist, expect, mem>>

\* mutant: after the first mismatch the scan runs to the end of the chain
\* without comparing keys
PutNextToEnd(t) ==
  /\ pc[t] = "put_loop"
  /\ Deref(loc[t].ptr) # NULL
  /\ heap[Deref(loc[t].ptr)].key # loc[t].key
  /\ loc' = [loc EXCEPT ![t].ptr =
               LET c == Chain(heap, Deref(loc[t].ptr)) IN NextPtr(c[Len(c)])]
  /\ UNCHANGED <<map, heap, lock, pc, calls, snap, driver, hist, expect, mem>>

PutNext(t) ==
  /\ pc[t] = "put_loop"
  /\ Deref(loc[t].ptr) # NULL
  /\ heap[Deref(loc[t].ptr)].key # loc[t].key
  /\ loc' = [loc EXCEPT ![t].ptr = NextPtr(Deref(loc[t].ptr))]
  /\ UNCHANGED <<map, heap, lock, pc, calls, snap, driver, hist, expect, mem>>

\* mutant: the new entry's next is NULL, not the bucket's head
PutAllocUnchained(t, a) ==
  /\ pc[t] = "put_loop"
  /\ Deref(loc[t].ptr) = NULL
  /\ a \notin DOMAIN heap
  /\ heap' = heap @@ (a :> [key |-> loc[t].key, value |-> loc[t].value,
                            next |-> NULL])
  /\ loc' = [loc EXCEPT ![t].newEntry = a]
  /\ pc' = [pc EXCEPT ![t] = "put_link"]
  /\ UNCHANGED <<map, lock, calls, snap, driver, hist, expect, mem>>

\* malloc(sizeof(ts_entry_t)) succeeded with address a; the three fields are set
PutAlloc(t, a) ==
  /\ pc[t] = "put_loop"
  /\ Deref(loc[t].ptr) = NULL
  /\ a \notin DOMAIN heap
  /\ heap' = heap @@ (a :> [key |-> loc[t].key, value |-> loc[t].value,
                            next |-> map.table[loc[t].index]])
  /\ loc' = [loc EXCEPT ![t].newEntry = a]
  /\ pc' = [pc EXCEPT ![t] = "put_link"]
  /\ UNCHANGED <<map, lock, calls, snap, driver, hist, expect, mem>>

\* mutant: a failed malloc returns at once, without map->numOps++
PutAllocFailReturns(t) ==
  /\ pc[t] = "put_loop"
  /\ Deref(loc[t].ptr) = NULL
  /\ pc' = [pc EXCEPT ![t] = "put_unlock"]
  /\ UNCHANGED <<map, heap, lock, loc, calls, snap, driver, hist, expect, mem>>

\* malloc returned NULL
PutAllocFail(t) ==
  /\ pc[t] = "put_loop"
  /\ Deref(loc[t].ptr) = NULL
  /\ pc' = [pc EXCEPT ![t] = "put_count"]
  /\ UNCHANGED <<map, heap, lock, loc, calls, snap, driver, hist, expect, mem>>

PutLink(t) ==
  /\ pc[t] = "put_link"
  /\ map' = [map EXCEPT !.table[loc[t].index] = loc[t].newEntry]
  /\ pc' = [pc EXCEPT ![t] = "put_size"]
  /\ UNCHANGED <<heap, lock, loc, calls, snap, driver, hist, expect, mem>>

\* mutant: the insertion path forgets map->numOps++
PutCountSkipped(t) ==
  /\ pc[t] = "put_count"
  /\ pc' = [pc EXCEPT ![t] = "put_unlock"]
  /\ UNCHANGED <<map, heap, lock, loc, calls, snap, driver, hist, expect, mem>>

\* mutant: the insertion forgets map->size++
PutSizeSkipped(t) ==
  /\ pc[t] = "put_size"
  /\ pc' = [pc EXCEPT ![t] = "put_count"]
  /\ UNCHANGED <<map, heap, lock, loc, calls, snap, driver, hist, expect, mem>>

PutSize(t) ==
  /\ pc[t] = "put_size"
  /\ map' = [map EXCEPT !.size = @ + 1]
  /\ pc' = [pc EXCEPT ![t] = "put_count"]
  /\ UNCHANGED <<heap, lock, loc, calls, snap, driver, hist, expect, mem>>

PutCount(t) ==
  /\ pc[t] = "put_count"
  /\ map' = Bump(map)
  /\ pc' = [pc EXCEPT ![t] = "put_unlock"]
  /\ UNCHANGED <<heap, lock, loc, calls, snap, driver, hist, expect, mem>>

PutUnlock(t) ==
  /\ pc[t] = "put_unlock"
  /\ Release(t)

\* --------------------------------------------------------------------- del
DelCall(t, k) ==
  /\ pc[t] = "idle"
  /\ May(t, "del", k, 0)
  /\ pc' = [pc EXCEPT ![t] = "del_lock"]
  /\ loc' = [loc EXCEPT ![t] = [NoLocals EXCEPT !.key = k, !.retval = INT_MAX,
                                  !.index = BucketIndex(k, map.capacity)]]
  /\ UNCHANGED <<map, heap, lock, calls, snap, driver, hist, expect, mem>>

DelLock(t) ==
  /\ pc[t] = "del_lock"
  /\ Acquire(t)
  /\ pc' = [pc EXCEPT ![t] = "del_loop"]
  /\ loc' = [loc EXCEPT ![t].ptr = TablePtr(loc[t].index)]
  /\ UNCHANGED <<map, heap, calls, driver, hist, expect, mem>>

\* mutant: the bucket's head is set to temp->next wherever temp was found
SpliceAtHead(p, a) ==
  /\ map' = [map EXCEPT !.table[BucketIndex(heap[a].key, map.capacity)] = heap[a].next]
  /\ UNCHANGED heap

\* temp = *ptr; value = temp->value; *ptr = temp->next
Splice(p, a) ==
  IF p[1] = "table"
    THEN /\ map' = [map EXCEPT !.table[p[2]] = heap[a].next]
         /\ UNCHANGED heap
    ELSE /\ heap' = [heap EXCEPT ![p[2]].next = heap[a].next]
         /\ UNCHANGED map

DelUnlink(t) ==
  /\ pc[t] = "del_loop"
  /\ Deref(loc[t].ptr) # NULL
  /\ heap[Deref(loc[t].ptr)].key = loc[t].key
  /\ loc' = [loc EXCEPT ![t].temp = Deref(loc[t].ptr),
                        ![t].retval = heap[Deref(loc[t].ptr)].value]
  /\ Splice(loc[t].ptr, Deref(loc[t].ptr))
  /\ pc' = [pc EXCEPT ![t] = "del_free"]
  /\ UNCHANGED <<lock, calls, snap, driver, hist, expect, mem>>

\* mutant: the removal forgets map->size--
DelFreeKeepsSize(t) ==
  /\ pc[t] = "del_free"
  /\ heap' = [a \in DOMAIN heap \ {loc[t].temp} |-> heap[a]]
  /\ map' = Bump(map)
  /\ pc' = [pc EXCEPT ![t] = "del_unlock"]
  /\ UNCHANGED <<lock, loc, calls, snap, driver, hist, expect, mem>>

\* free(temp); map->size--; map->numOps++
DelFree(t) ==
  /\ pc[t] = "del_free"
  /\ heap' = [a \in DOMAIN heap \ {loc[t].temp} |-> heap[a]]
  /\ map' = Bump([map EXCEPT !.size = @ - 1])
  /\ pc' = [pc EXCEPT ![t] = "del_unlock"]
  /\ UNCHANGED <<lock, loc, calls, snap, driver, hist, expect, mem>>

DelNext(t) ==
  /\ pc[t] = "del_loop"
  /\ Deref(loc[t].ptr) # NULL
  /\ heap[Deref(loc[t].ptr)].key # loc[t].key
  /\ loc' = [loc EXCEPT ![t].ptr = NextPtr(Deref(loc[t].ptr))]
  /\ UNCHANGED <<map, heap, lock, pc, calls, snap, driver, hist, expect, mem>>

\* mutant: the miss path decrements map->size as the hit path does
DelMissShrinks(t) ==
  /\ pc[t] = "del_loop"
  /\ Deref(loc[t].ptr) = NULL
  /\ map' = Bump([map EXCEPT !.size = @ - 1])
  /\ pc' = [pc EXCEPT ![t] = "del_unlock"]
  /\ UNCHANGED <<heap, lock, loc, calls, snap, driver, hist, expect, mem>>

DelMiss(t) ==
  /\ pc[t] = "del_loop"
  /\ Deref(loc[t].ptr) = NULL
  /\ map' = Bump(map)
  /\ pc' = [pc EXCEPT ![t] = "del_unlock"]
  /\ UNCHANGED <<heap, lock, loc, calls, snap, driver, hist, expect, mem>>

DelUnlock(t) ==
  /\ pc[t] = "del_unlock"
  /\ Release(t)

\* ------------------------------------------------- the functions as wholes
Bucket(s, k) == Chain(s.heap, s.map.table[BucketIndex(k, s.map.capacity)])

\* the entries of k's bucket whose key is k, in link order
Match(s, k) == SelectSeq(Bucket(s, k), LAMBDA a : s.heap[a].key = k)

\* get(map, key) run with no other thread: the map, the heap and the result
get(s, k) ==
  LET m == Match(s, k) IN
  [map |-> Bump(s.map), heap |-> s.heap, newEntry |-> NULL,
   ret |-> IF m = <<>> THEN INT_MAX ELSE s.heap[m[1]].value]

\* put(map, key, value) run with no other thread: every outcome malloc allows
put(s, k, v) ==
  LET m == Match(s, k)
      i == BucketIndex(k, s.map.capacity)
  IN IF m # <<>>
       THEN {[map |-> Bump(s.map), newEntry |-> NULL, ret |-> s.heap[m[1]].value,
              heap |-> [s.heap EXCEPT ![m[1]].value = v]]}
       ELSE {[map |-> Bump(s.map), heap |-> s.heap, newEntry |-> NULL, ret |-> INT_MAX]}
            \cup
            {[map |-> Bump([s.map EXCEPT !.table[i] = a, !.size = @ + 1]),
              heap |-> s.heap @@ (a :> [key |-> k, value |-> v, next |-> s.map.table[i]]),
              newEntry |-> a, ret |-> INT_MAX] : a \in Addr \ DOMAIN s.heap}

\* del(map, key) run with no other thread
del(s, k) ==
  LET m == Match(s, k)
      b == Bucket(s, k)
      i == BucketIndex(k, s.map.capacity)
  IN IF m = <<>>
       THEN [map |-> Bump(s.map), heap |-> s.heap, newEntry |-> NULL, ret |-> INT_MAX]
       ELSE LET a == m[1]
                pos == CHOOSE j \in DOMAIN b : b[j] = a
                linked == IF pos = 1 THEN s.heap
                          ELSE [s.heap EXCEPT ![b[pos - 1]].next = s.heap[a].next]
                tab == IF pos = 1 THEN [s.map.table EXCEPT ![i] = s.heap[a].next]
                       ELSE s.map.table
            IN [map |-> Bump([s.map EXCEPT !.table = tab, !.size = @ - 1]),
                heap |-> [x \in DOMAIN linked \ {a} |-> linked[x]],
                newEntry |-> NULL, ret |-> s.heap[a].value]

\* ----------------------------------------------------------------- freeMap
\* freeMap(NULL) returns at once
FreeNull(t) ==
  /\ pc[t] = "idle"
  /\ May(t, "freeMap", 0, 0)
  /\ mem.handle = "null"
  /\ calls' = [calls EXCEPT ![t] = @ + 1]
  /\ UNCHANGED <<map, heap, lock, pc, loc, driver, snap, hist, expect, mem>>

FreeCall(t) ==
  /\ pc[t] = "idle"
  /\ May(t, "freeMap", 0, 0)
  /\ mem.handle = "map"
  /\ pc' = [pc EXCEPT ![t] = "free_lock"]
  /\ UNCHANGED <<map, heap, lock, loc, calls, driver, snap, hist, expect, mem>>

FreeLock(t) ==
  /\ pc[t] = "free_lock"
  /\ Acquire(t)
  /\ mem' = [mem EXCEPT !.events = Append(@, <<"lock", 0>>)]
  /\ loc' = [loc EXCEPT ![t].i = 0]
  /\ pc' = [pc EXCEPT ![t] = "free_bucket"]
  /\ UNCHANGED <<map, heap, calls, driver, hist, expect>>

\* i < map->capacity: entry = map->table[i]
FreeBucket(t) ==
  /\ pc[t] = "free_bucket"
  /\ loc[t].i < map.capacity
  /\ loc' = [loc EXCEPT ![t].entry = map.table[loc[t].i]]
  /\ pc' = [pc EXCEPT ![t] = "free_chain"]
  /\ UNCHANGED <<map, heap, lock, calls, driver, snap, hist, expect, mem>>

\* mutant: only the head of each chain is freed
FreeEntryHeadOnly(t) ==
  /\ pc[t] = "free_chain"
  /\ loc[t].entry # NULL
  /\ loc' = [loc EXCEPT ![t].next = heap[loc[t].entry].next, ![t].entry = NULL]
  /\ heap' = [a \in DOMAIN heap \ {loc[t].entry} |-> heap[a]]
  /\ mem' = [mem EXCEPT !.events = Append(@, <<"entry", loc[t].entry>>)]
  /\ UNCHANGED <<map, lock, pc, calls, driver, snap, hist, expect>>

\* next = entry->next; free(entry); entry = next
FreeEntry(t) ==
  /\ pc[t] = "free_chain"
  /\ loc[t].entry # NULL
  /\ loc' = [loc EXCEPT ![t].next = heap[loc[t].entry].next,
                        ![t].entry = heap[loc[t].entry].next]
  /\ heap' = [a \in DOMAIN heap \ {loc[t].entry} |-> heap[a]]
  /\ mem' = [mem EXCEPT !.events = Append(@, <<"entry", loc[t].entry>>)]
  /\ UNCHANGED <<map, lock, pc, calls, driver, snap, hist, expect>>

\* entry == NULL: i++
FreeChainEnd(t) ==
  /\ pc[t] = "free_chain"
  /\ loc[t].entry = NULL
  /\ loc' = [loc EXCEPT ![t].i = @ + 1]
  /\ pc' = [pc EXCEPT ![t] = "free_bucket"]
  /\ UNCHANGED <<map, heap, lock, calls, driver, snap, hist, expect, mem>>

\* i == map->capacity: free(map->table)
FreeTable(t) ==
  /\ pc[t] = "free_bucket"
  /\ loc[t].i >= map.capacity
  /\ mem' = [mem EXCEPT !.table = "freed", !.events = Append(@, <<"table", 0>>)]
  /\ pc' = [pc EXCEPT ![t] = "free_unlock"]
  /\ UNCHANGED <<map, heap, lock, loc, calls, driver, snap, hist, expect>>

FreeUnlock(t) ==
  /\ pc[t] = "free_unlock"
  /\ lock' = UNLOCKED
  /\ mem' = [mem EXCEPT !.events = Append(@, <<"unlock", 0>>)]
  /\ pc' = [pc EXCEPT ![t] = "free_destroy"]
  /\ UNCHANGED <<map, heap, loc, calls, driver, snap, hist, expect>>

FreeDestroy(t) ==
  /\ pc[t] = "free_destroy"
  /\ mem' = [mem EXCEPT !.mutex = "destroyed", !.events = Append(@, <<"destroy", 0>>)]
  /\ pc' = [pc EXCEPT ![t] = "free_map"]
  /\ UNCHANGED <<map, heap, lock, loc, calls, driver, snap, hist, expect>>

\* free(map), then the return to the caller
FreeMapObject(t) ==
  /\ pc[t] = "free_map"
  /\ mem' = [mem EXCEPT !.map = "freed", !.events = Append(@, <<"map", 0>>)]
  /\ pc' = [pc EXCEPT ![t] = "idle"]
  /\ loc' = [loc EXCEPT ![t] = NoLocals]
  /\ calls' = [calls EXCEPT ![t] = @ + 1]
  /\ UNCHANGED <<map, heap, lock, driver, snap, hist, expect>>

\* ------------------------------------------------------- the specifications
StoredValue == CHOOSE v \in Values : v # INT_MAX

\* The map after put(k, StoredValue) for each key of ks in turn on a new map of
\* capacity cap, the n-th allocation returning address n.
RECURSIVE Prior(_, _)
Prior(cap, ks) ==
  IF ks = <<>> THEN [map |-> initmap(cap), heap |-> <<>>]
  ELSE LET n == Len(ks)
           o == CHOOSE x \in put(Prior(cap, SubSeq(ks, 1, n - 1)), ks[n], StoredValue) :
                  x.newEntry = n
       IN [map |-> o.map, heap |-> o.heap]

KeySeqs ==
  {ks \in UNION {[1..n -> Keys] : n \in 0..MaxEntries} :
     \A i, j \in DOMAIN ks : i # j => ks[i] # ks[j]}

NewMaps == {Prior(cap, <<>>) : cap \in Capacities}
PriorMaps == {Prior(cap, ks) : cap \in Capacities, ks \in KeySeqs}

\* every entry reachable from the table, bucket by bucket, in link order
RECURSIVE EntriesFrom(_, _)
EntriesFrom(s, i) ==
  IF i >= s.map.capacity THEN <<>>
  ELSE Chain(s.heap, s.map.table[i]) \o EntriesFrom(s, i + 1)

AllEntries(s) == EntriesFrom(s, 0)

\* the reachable entries whose key is k
KeyEntries(s, k) == SelectSeq(AllEntries(s), LAMBDA a : s.heap[a].key = k)
KeyValues(s, k) == {s.heap[KeyEntries(s, k)[i]].value : i \in DOMAIN KeyEntries(s, k)}

Now == [map |-> map, heap |-> heap]

StartWith(s, d, m) ==
  /\ map = s.map
  /\ heap = s.heap
  /\ lock = UNLOCKED
  /\ pc = [t \in Threads |-> "idle"]
  /\ loc = [t \in Threads |-> NoLocals]
  /\ calls = [t \in Threads |-> 0]
  /\ driver = d
  /\ snap = [map |-> s.map, heap |-> s.heap, by |-> UNLOCKED]
  /\ hist = <<>>
  /\ expect = [k \in Keys |-> [kept |-> KeyValues(s, k), ideal |-> KeyValues(s, k)]]
  /\ mem = m

\* the map s as initmap returned it, or as earlier calls left it
Start(s, d) == StartWith(s, d, LiveMem)

PutValues == Values \cup Threads

Next ==
  \E t \in Threads :
    \/ \E k \in Keys : GetCall(t, k)
    \/ GetLock(t) \/ GetHit(t) \/ GetNext(t) \/ GetMiss(t) \/ GetUnlock(t)
    \/ \E k \in Keys, v \in PutValues : PutCall(t, k, v)
    \/ PutLock(t) \/ PutHit(t) \/ PutNext(t) \/ PutAllocFail(t)
    \/ \E a \in Addr : PutAlloc(t, a)
    \/ PutLink(t) \/ PutSize(t) \/ PutCount(t) \/ PutUnlock(t)
    \/ \E k \in Keys : DelCall(t, k)
    \/ DelLock(t) \/ DelUnlink(t) \/ DelFree(t) \/ DelNext(t) \/ DelMiss(t)
    \/ DelUnlock(t)

\* put alone, for the harness that only puts
PutOnlyNext ==
  \E t \in Threads :
    \/ \E k \in Keys, v \in PutValues : PutCall(t, k, v)
    \/ PutLock(t) \/ PutHit(t) \/ PutNext(t) \/ PutAllocFail(t)
    \/ \E a \in Addr : PutAlloc(t, a)
    \/ PutLink(t) \/ PutSize(t) \/ PutCount(t) \/ PutUnlock(t)

\* threads issue any calls on a new map, in any interleaving
Init == \E s \in NewMaps : Start(s, [kind |-> "any", key |-> 0])
Spec == Init /\ [][Next]_vars

\* one thread issues any calls on a map that earlier puts filled
SeqInit == \E s \in PriorMaps : Start(s, [kind |-> "seq", key |-> 0])
SeqSpec == SeqInit /\ [][Next]_vars

\* pthread_mutex_lock in thread t, and every other statement of its call
LockStep(t) == GetLock(t) \/ PutLock(t) \/ DelLock(t)
BodyStep(t) ==
  \/ GetHit(t) \/ GetNext(t) \/ GetMiss(t) \/ GetUnlock(t)
  \/ PutHit(t) \/ PutNext(t) \/ PutAllocFail(t) \/ (\E a \in Addr : PutAlloc(t, a))
  \/ PutLink(t) \/ PutSize(t) \/ PutCount(t) \/ PutUnlock(t)
  \/ DelUnlink(t) \/ DelFree(t) \/ DelNext(t) \/ DelMiss(t) \/ DelUnlock(t)

\* each thread issues one call, on a map that two earlier puts filled
FairInit ==
  \E s \in PriorMaps : s.map.size = 2 /\ Start(s, [kind |-> "fair", key |-> 0])

\* the scheduler runs every thread that can take a step, and the mutex is
\* fair: a thread that finds it free again and again gets it
FairSpec ==
  /\ FairInit
  /\ [][Next]_vars
  /\ \A t \in Threads : WF_vars(BodyStep(t)) /\ SF_vars(LockStep(t))

\* each thread issues calls on its own keys, on a new map
DisjointInit == \E s \in NewMaps : Start(s, [kind |-> "disjoint", key |-> 0])
DisjointSpec == DisjointInit /\ [][Next]_vars

\* every thread puts its own id under one key, on a map that earlier puts filled
SameKeyInit ==
  \E s \in PriorMaps, k \in Keys : Start(s, [kind |-> "same", key |-> k])
SameKeySpec == SameKeyInit /\ [][PutOnlyNext]_vars

\* one thread runs the scripted calls on a new map of capacity 4
ScriptKeys == {Script[i].key : i \in DOMAIN Script}
ScriptValues == {Script[i].value : i \in DOMAIN Script}

ScenarioNext ==
  \E t \in Threads :
    \/ \E k \in ScriptKeys : GetCall(t, k)
    \/ GetLock(t) \/ GetHit(t) \/ GetNext(t) \/ GetMiss(t) \/ GetUnlock(t)
    \/ \E k \in ScriptKeys, v \in ScriptValues : PutCall(t, k, v)
    \/ PutLock(t) \/ PutNext(t) \/ PutAllocFail(t)
    \/ \E a \in Addr : PutAlloc(t, a)
    \/ PutLink(t) \/ PutSize(t) \/ PutCount(t) \/ PutUnlock(t)
    \/ \E k \in ScriptKeys : DelCall(t, k)
    \/ DelLock(t) \/ DelUnlink(t) \/ DelFree(t) \/ DelNext(t) \/ DelMiss(t)
    \/ DelUnlock(t)

ScenarioInit == Start(Prior(4, <<>>), [kind |-> "scenario", key |-> 0])
ScenarioSpec == ScenarioInit /\ [][ScenarioNext]_vars

\* initmap runs with any capacity, then each thread puts once
InitCapacities == {-1, 0} \cup Capacities

CreateNext ==
  \/ \E cap \in InitCapacities : InitNoMap(cap)
  \/ \E cap \in InitCapacities : InitNoTable(cap)
  \/ \E cap \in InitCapacities : InitNoMutex(cap)
  \/ \E cap \in InitCapacities : InitOk(cap)
  \/ PutOnlyNext

CreateInit == StartWith(Prior(0, <<>>), [kind |-> "create", key |-> 0], NoMem)
CreateSpec == CreateInit /\ [][CreateNext]_vars

\* one thread calls freeMap, on a map that earlier puts filled or on NULL
TeardownNext ==
  \E t \in Threads :
    \/ FreeNull(t) \/ FreeCall(t) \/ FreeLock(t) \/ FreeBucket(t) \/ FreeEntry(t)
    \/ FreeChainEnd(t) \/ FreeTable(t) \/ FreeUnlock(t) \/ FreeDestroy(t)
    \/ FreeMapObject(t)

TeardownInit ==
  \/ \E s \in PriorMaps : Start(s, [kind |-> "teardown", key |-> 0])
  \/ StartWith(Prior(0, <<>>), [kind |-> "teardown", key |-> 0],
                [NoMem EXCEPT !.handle = "null"])
TeardownSpec == TeardownInit /\ [][TeardownNext]_vars

\* ================================================================== claims
Unlocking == {"get_unlock", "put_unlock", "del_unlock"}
Before == [map |-> snap.map, heap |-> snap.heap]
RECURSIVE Sum(_, _)
Sum(f, S) == IF S = {} THEN 0 ELSE LET x == CHOOSE y \in S : TRUE IN f[x] + Sum(f, S \ {x})

\* C1: whenever no thread holds the lock, size is the number of entries
\* reachable from the bucket heads.
C1_SizeIsEntryCount == lock = UNLOCKED => map.size = Len(AllEntries(Now))

\* C1 witness: the lock is free after a del took the map from two entries to one.
C1_Witness ==
  /\ lock = UNLOCKED
  /\ snap.map.size = 2
  /\ map.size = 1
  /\ Len(AllEntries(Now)) = 1

\* C2: in every state, no two entries reachable from the table have the same key
\* (an entry reachable twice counts twice).
C2_NoDuplicateKeys ==
  LET e == AllEntries(Now) IN
  \A i, j \in DOMAIN e : i # j => heap[e[i]].key # heap[e[j]].key

\* C2 witness: a put of a key that sits behind another entry of its chain found
\* it and overwrote it, with a second thread waiting to put.
C2_Witness ==
  \E t, u \in Threads :
    /\ pc[t] = "put_unlock"
    /\ pc[u] = "put_lock"
    /\ loc[t].ptr[1] = "next"
    /\ loc[t].newEntry = NULL
    /\ KeyEntries(Now, loc[t].key) # <<>>

\* C3: numOps is the number of completed calls, plus one while the thread in
\* the critical section has counted its call and not yet returned; so it is N
\* after N completed calls, hits and misses alike.
C3_NumOpsCountsCalls ==
  map.numOps = Sum(calls, Threads)
               + (IF \E t \in Threads : pc[t] \in Unlocking THEN 1 ELSE 0)

\* C3 witness: every thread has completed all its calls, and the last call to
\* hold the lock changed nothing but numOps.
C3_Witness ==
  /\ \A t \in Threads : calls[t] = MaxCalls /\ pc[t] = "idle"
  /\ map.numOps = NThreads * MaxCalls
  /\ map.numOps = snap.map.numOps + 1
  /\ map.size = snap.map.size
  /\ heap = snap.heap

\* the outcomes of thread t's call run alone on the state it locked
Alone(t) ==
  CASE OpOf(pc[t]) = "get" -> {get(Before, loc[t].key)}
    [] OpOf(pc[t]) = "put" -> put(Before, loc[t].key, loc[t].value)
    [] OpOf(pc[t]) = "del" -> {del(Before, loc[t].key)}
    [] OTHER -> {}

\* C4: when a call is about to release the lock, it is the call that acquired
\* it last, and the map, the heap and the return value are those of running the
\* whole call alone on the state found at its lock acquisition.
C4_Serialized ==
  \A t \in Threads :
    pc[t] \in Unlocking =>
      /\ lock = t
      /\ snap.by = t
      /\ [map |-> map, heap |-> heap, newEntry |-> loc[t].newEntry,
          ret |-> loc[t].retval] \in Alone(t)

\* C4 witness: a del that removed an entry is about to release the lock while
\* another thread waits at the lock for its put.
C4_Witness ==
  \E t, u \in Threads :
    /\ pc[t] = "del_unlock"
    /\ map.size < snap.map.size
    /\ pc[u] = "put_lock"

\* every thread of the same-key harness has made its call
AllPut == \A t \in Threads : calls[t] = 1

\* C5 as stated: under the same-key harness the key never has two entries, and
\* once every put has returned it has exactly one, holding the id of the thread
\* that acquired the lock last.
C5_LastWriterWins ==
  /\ Len(KeyEntries(Now, driver.key)) <= 1
  /\ AllPut => /\ Len(KeyEntries(Now, driver.key)) = 1
               /\ KeyValues(Now, driver.key) = {snap.by}

\* C5 amended: the key never has two entries, and once every put has returned
\* it has exactly one, holding the id of the thread that acquired the lock last,
\* unless it was absent before the puts and every put's allocation failed: then
\* it has none.
C5_LastWriterUnlessAllFail ==
  /\ Len(KeyEntries(Now, driver.key)) <= 1
  /\ AllPut =>
       IF expect[driver.key].kept = {}
         THEN KeyEntries(Now, driver.key) = <<>>
         ELSE /\ Len(KeyEntries(Now, driver.key)) = 1
              /\ KeyValues(Now, driver.key) = {snap.by}

\* C5 witness: every thread has put its id under the key, whose chain holds
\* three entries, and the key holds the last locker's id.
C5_Witness ==
  /\ AllPut
  /\ map.size = 3
  /\ Len(Bucket(Now, driver.key)) = 3
  /\ KeyValues(Now, driver.key) = {snap.by}

\* every thread of the disjoint-keys harness has made all its calls
Finished == \A t \in Threads : calls[t] = MaxCalls

\* C6 as stated: once every thread has finished, each key holds what its
\* owner's calls leave when every put stores its value, and size is the number
\* of keys so left in the map.
C6_NoLostUpdates ==
  Finished =>
    /\ \A k \in Keys : KeyValues(Now, k) = expect[k].ideal
    /\ map.size = Cardinality({k \in Keys : expect[k].ideal # {}})

\* C6 amended: once every thread has finished, each key holds what its owner's
\* calls leave when run alone with the same allocation outcomes (a put of an
\* absent key whose allocation failed stores nothing), in one entry, and size
\* is the number of keys so left in the map.
C6_NoLostUpdatesButAllocation ==
  Finished =>
    /\ \A k \in Keys : /\ KeyValues(Now, k) = expect[k].kept
                       /\ Len(KeyEntries(Now, k)) = Cardinality(expect[k].kept)
    /\ map.size = Cardinality({k \in Keys : expect[k].kept # {}})

\* C6 witness: every thread has finished and left a key of its own in the map.
C6_Witness ==
  /\ Finished
  /\ \A t \in Threads : \E k \in Keys : Owner(k) = t /\ KeyValues(Now, k) # {}
  /\ map.size = NThreads

\* a put stores its value when it finds the key or its allocation succeeds
Stored(c) == c.newEntry # NULL \/ KeyEntries(c.pre, c.key) # <<>>

\* calls i and i + 1 of the sequential history are op1 and op2 on one key
Pair(i, op1, op2) ==
  /\ i + 1 <= Len(hist)
  /\ hist[i].op = op1
  /\ hist[i + 1].op = op2
  /\ hist[i].key = hist[i + 1].key

\* call i + 2 is a get of the key of call i
ThenGet(i) ==
  /\ i + 2 <= Len(hist)
  /\ hist[i + 2].op = "get"
  /\ hist[i + 2].key = hist[i].key

\* C7 as stated: a put(k, v) directly followed by get(k) makes the get return v.
C7_RoundTrip ==
  \A i \in DOMAIN hist : Pair(i, "put", "get") => hist[i + 1].ret = hist[i].value

\* C7 amended: a put(k, v) directly followed by get(k) makes the get return v
\* when the put found k or its allocation succeeded, and INT_MAX when k was
\* absent and the allocation failed.
C7_RoundTripIfStored ==
  \A i \in DOMAIN hist :
    Pair(i, "put", "get") =>
      hist[i + 1].ret = (IF Stored(hist[i]) THEN hist[i].value ELSE INT_MAX)

\* C7 witness: a put inserted a new key in front of a chain that was not empty,
\* and the get that followed returned the value put.
C7_Witness ==
  \E i \in DOMAIN hist :
    /\ Pair(i, "put", "get")
    /\ hist[i].newEntry # NULL
    /\ Bucket(hist[i].pre, hist[i].key) # <<>>
    /\ hist[i + 1].ret = hist[i].value

\* C8 as stated: put(k, v1) directly followed by put(k, v2): the second returns
\* v1 and leaves size as it was, and a get(k) right after returns v2.
C8_Overwrite ==
  \A i \in DOMAIN hist :
    Pair(i, "put", "put") =>
      /\ hist[i + 1].ret = hist[i].value
      /\ hist[i + 1].post.map.size = hist[i + 1].pre.map.size
      /\ ThenGet(i) => hist[i + 2].ret = hist[i + 1].value

\* C8 amended: the same when the first put found k or its allocation succeeded;
\* when k was absent and that allocation failed, the second put returns INT_MAX.
C8_OverwriteIfStored ==
  \A i \in DOMAIN hist :
    Pair(i, "put", "put") =>
      IF Stored(hist[i])
        THEN /\ hist[i + 1].ret = hist[i].value
             /\ hist[i + 1].post.map.size = hist[i + 1].pre.map.size
             /\ ThenGet(i) => hist[i + 2].ret = hist[i + 1].value
        ELSE hist[i + 1].ret = INT_MAX

\* C8 witness: a put inserted k, a second put of another value overwrote it,
\* and the get after them returned the second value.
C8_Witness ==
  \E i \in DOMAIN hist :
    /\ Pair(i, "put", "put")
    /\ ThenGet(i)
    /\ hist[i].newEntry # NULL
    /\ hist[i].value # hist[i + 1].value
    /\ hist[i + 1].ret = hist[i].value
    /\ hist[i + 2].ret = hist[i + 1].value

\* C9 as stated: put(k, v) directly followed by del(k): the del returns v and
\* takes one from size, and a get(k) right after returns INT_MAX.
C9_DeleteRemoves ==
  \A i \in DOMAIN hist :
    Pair(i, "put", "del") =>
      /\ hist[i + 1].ret = hist[i].value
      /\ hist[i + 1].post.map.size = hist[i + 1].pre.map.size - 1
      /\ ThenGet(i) => hist[i + 2].ret = INT_MAX

\* C9 amended: the same, wherever k sits in its chain, when the put found k or
\* its allocation succeeded; when k was absent and the allocation failed, the
\* del returns INT_MAX and leaves size as it was; the get returns INT_MAX in
\* both cases.
C9_DeleteRemovesIfStored ==
  \A i \in DOMAIN hist :
    Pair(i, "put", "del") =>
      /\ IF Stored(hist[i])
           THEN /\ hist[i + 1].ret = hist[i].value
                /\ hist[i + 1].post.map.size = hist[i + 1].pre.map.size - 1
           ELSE /\ hist[i + 1].ret = INT_MAX
                /\ hist[i + 1].post.map.size = hist[i + 1].pre.map.size
      /\ ThenGet(i) => hist[i + 2].ret = INT_MAX

\* C9 witness: the del removed the middle entry of a chain of three, whose value
\* the put before it had set, and the get after it missed.
C9_Witness ==
  \E i \in DOMAIN hist :
    /\ Pair(i, "put", "del")
    /\ ThenGet(i)
    /\ Len(Bucket(hist[i + 1].pre, hist[i].key)) = 3
    /\ hist[i + 1].pre.heap[Bucket(hist[i + 1].pre, hist[i].key)[2]].key = hist[i].key
    /\ hist[i + 1].ret = hist[i].value
    /\ hist[i].value # StoredValue
    /\ hist[i + 2].ret = INT_MAX

\* C10: a get or del whose key is in no chain when it locks returns INT_MAX,
\* and the del leaves size, the table and every entry as they were, adding one
\* to numOps.
C10_Miss ==
  \A t \in Threads :
    (pc[t] \in {"get_unlock", "del_unlock"} /\ KeyEntries(Before, loc[t].key) = <<>>) =>
      /\ loc[t].retval = INT_MAX
      /\ pc[t] = "del_unlock" =>
           /\ map.size = snap.map.size
           /\ map.table = snap.map.table
           /\ heap = snap.heap
           /\ map.numOps = snap.map.numOps + 1
           /\ map.capacity = snap.map.capacity

\* C10 witness: a del has walked a chain of two entries, neither with its key.
C10_Witness ==
  \E t \in Threads :
    /\ pc[t] = "del_unlock"
    /\ KeyEntries(Before, loc[t].key) = <<>>
    /\ Len(Bucket(Before, loc[t].key)) = 2
    /\ loc[t].ptr[1] = "next"

\* C11, as stated: the scripted calls on a new map of capacity 4 return
\* NOT_FOUND, NOT_FOUND, 100, 200, 100, NOT_FOUND, leave sizes 1, 2, 2, 2, 1, 1,
\* keys 1 and 5 share bucket 1, and numOps is 5 at the end
C11_Returns == <<INT_MAX, INT_MAX, 100, 200, 100, INT_MAX>>
C11_Sizes == <<1, 2, 2, 2, 1, 1>>
C11_Steps ==
  \A i \in DOMAIN hist :
    /\ hist[i].ret = C11_Returns[i]
    /\ hist[i].post.map.size = C11_Sizes[i]
    /\ i = 2 =>
         {hist[i].post.heap[a].key :
            a \in {Chain(hist[i].post.heap, hist[i].post.map.table[1])[j] :
                     j \in 1..Len(Chain(hist[i].post.heap, hist[i].post.map.table[1]))}}
           = {1, 5}
C11_Allocated == \A i \in DOMAIN hist : hist[i].op = "put" => hist[i].newEntry # NULL
C12_RejectsNonPositive ==
  mem.handle = "map" => map.capacity > 0 /\ DOMAIN map.table # {}

\* C13: a put of an absent key whose entry allocation fails returns INT_MAX,
\* adds one to numOps, leaves size, the table and every entry as they were,
\* so size is still the entry count and no key is stored twice; and once the
\* call has returned the lock is free
C13_FailedPut(c) ==
  c.op = "put" /\ KeyEntries(c.pre, c.key) = <<>> /\ c.newEntry = NULL
C13_AllocationFailure ==
  /\ \A i \in DOMAIN hist :
       C13_FailedPut(hist[i]) =>
         /\ hist[i].ret = INT_MAX
         /\ hist[i].post.map = Bump(hist[i].pre.map)
         /\ hist[i].post.heap = hist[i].pre.heap
         /\ hist[i].post.map.size = Len(AllEntries(hist[i].post))
         /\ \A k \in Keys : Len(KeyEntries(hist[i].post, k)) <= 1
  /\ \A t \in Threads : pc[t] = "idle" => lock # t

\* C13 witness: a put of an absent key into an occupied bucket has returned
\* after its allocation failed
C13_Witness ==
  \E i \in DOMAIN hist :
    /\ C13_FailedPut(hist[i])
    /\ Bucket(hist[i].pre, hist[i].key) # <<>>
    /\ lock = UNLOCKED

\* C14: a get, put or del returns INT_MAX exactly when its key was in no
\* chain when the call scanned, whatever values earlier puts stored
C14_SentinelDistinct ==
  \A i \in DOMAIN hist :
    hist[i].ret = INT_MAX <=> KeyEntries(hist[i].pre, hist[i].key) = <<>>

\* C15: freeMap on a map locks, frees the entries bucket by bucket in link
\* order, each once, then the table, then unlocks, destroys the mutex and
\* frees the map object; when it has returned no entry, table or map storage
\* is left and nothing was freed twice; freeMap(NULL) changes nothing
C15_Order ==
  << <<"lock", 0>> >>
    \o [i \in 1..Len(AllEntries(Before)) |-> <<"entry", AllEntries(Before)[i]>>]
    \o << <<"table", 0>>, <<"unlock", 0>>, <<"destroy", 0>>, <<"map", 0>> >>
C15_Returned == \A t \in Threads : pc[t] = "idle" /\ calls[t] = (IF t = 1 THEN 1 ELSE 0)
C15_Teardown ==
  /\ mem.handle = "map" /\ mem.events # <<>> =>
       /\ Len(mem.events) <= Len(C15_Order)
       /\ mem.events = SubSeq(C15_Order, 1, Len(mem.events))
       /\ \A i, j \in DOMAIN mem.events : i # j => mem.events[i] # mem.events[j]
  /\ mem.handle = "map" /\ C15_Returned =>
       /\ mem.events = C15_Order
       /\ DOMAIN heap = {}
       /\ mem.table = "freed" /\ mem.map = "freed" /\ mem.mutex = "destroyed"
       /\ lock = UNLOCKED
  /\ mem.handle = "null" =>
       /\ mem.events = <<>>
       /\ map = snap.map /\ heap = snap.heap /\ lock = UNLOCKED
       /\ mem.table = "none" /\ mem.map = "none" /\ mem.mutex = "none"

\* C15 witness: freeMap has returned from a map that held a chain of two
\* entries and an entry in another bucket
C15_Witness ==
  /\ driver.kind = "teardown"
  /\ mem.handle = "map"
  /\ C15_Returned
  /\ \E k \in Keys : Len(Bucket(Before, k)) = 2
  /\ Len(AllEntries(Before)) = 3

\* the positions of get, put and del after pthread_mutex_lock has returned
\* and before pthread_mutex_unlock is called
Inside ==
  {"get_loop", "get_unlock", "put_loop", "put_link", "put_size", "put_count",
   "put_unlock", "del_loop", "del_free", "del_unlock"}

\* C16: at most one thread is between lock acquisition and release, and it is
\* the lock's holder; every step that changes the table, an entry, size or
\* numOps is taken by the holder from a position inside, so are the scans
C16_MutualExclusion ==
  /\ [](/\ Cardinality({t \in Threads : pc[t] \in Inside}) <= 1
        /\ \A t \in Threads : pc[t] \in Inside => lock = t)
  /\ [][(map' # map \/ heap' # heap) =>
          /\ lock \in Threads
          /\ lock' = lock
          /\ pc[lock] \in Inside
          /\ \A u \in Threads \ {lock} : pc'[u] = pc[u] /\ loc'[u] = loc[u]]_vars

\* C16 witness: one thread is halfway through an insertion, the entry linked
\* and size not yet raised, while the other waits at the lock
C16_Witness ==
  \E t, u \in Threads :
    /\ pc[t] = "put_size"
    /\ lock = t
    /\ pc[u] \in {"get_lock", "put_lock", "del_lock"}

\* C17: a call returns only by releasing the lock it holds, the lock is
\* released only by a return, and no returned thread holds it; under a fair
\* lock and fair scheduling every invoked call returns and a held lock becomes
\* free
C17_ReleasesAndCompletes ==
  /\ [](\A t \in Threads : pc[t] = "idle" => lock # t)
  /\ [][\A t \in Threads :
          pc[t] # "idle" /\ pc'[t] = "idle" => lock = t /\ lock' = UNLOCKED]_vars
  /\ [][lock # UNLOCKED /\ lock' = UNLOCKED => pc'[lock] = "idle"]_vars
  /\ \A t \in Threads : (pc[t] # "idle") ~> (pc[t] = "idle")
  /\ (lock # UNLOCKED) ~> (lock = UNLOCKED)

\* C17 witness: a put whose allocation failed is about to count itself while
\* the other thread waits at the lock
C17_Witness ==
  \E t, u \in Threads :
    /\ pc[t] = "put_count"
    /\ loc[t].newEntry = NULL
    /\ lock = t
    /\ pc[u] \in {"get_lock", "put_lock", "del_lock"}

\* the bucket of key k by definition: the i in [0, cap) that differs from the
\* unsigned value of k by a multiple of cap, with 2^32 taken as 65536 squared
C18_Bucket(k, cap) ==
  CHOOSE i \in 0..(cap - 1) :
    IF k >= 0 THEN (k - i) % cap = 0
    ELSE (((k - i) % cap) + ((65536 % cap) * (65536 % cap))) % cap = 0

\* C18: the index every call computes is the unsigned value of its key modulo
\* capacity, inside [0, capacity) also for a negative key, the same for get,
\* put and del; and every entry of bucket i has a key whose index is i
C18_UnsignedIndex ==
  /\ \A t \in Threads :
       pc[t] # "idle" =>
         /\ loc[t].index \in 0..(map.capacity - 1)
         /\ loc[t].index = C18_Bucket(loc[t].key, map.capacity)
  /\ \A i \in DOMAIN map.table :
       \A j \in DOMAIN Chain(heap, map.table[i]) :
         C18_Bucket(heap[Chain(heap, map.table[i])[j]].key, map.capacity) = i

\* C18 witness: with three buckets a negative key is stored, and a call on it
\* is scanning its bucket
C18_Witness ==
  /\ map.capacity > 1
  /\ \E a \in DOMAIN heap : heap[a].key < 0 /\ a \in {map.table[i] : i \in DOMAIN map.table}
  /\ \E t \in Threads : loc[t].key < 0 /\ pc[t] \in {"get_loop", "del_loop", "put_loop"}

\* C19: while a get scans, the map and every entry are as it found them at
\* its lock acquisition; when it is about to unlock, hit or miss, capacity,
\* size, the bucket heads and every entry are still so, and numOps is one more
C19_GetFrame ==
  \A t \in Threads :
    /\ pc[t] = "get_loop" => map = snap.map /\ heap = snap.heap
    /\ pc[t] = "get_unlock" =>
         /\ map.capacity = snap.map.capacity
         /\ map.size = snap.map.size
         /\ map.table = snap.map.table
         /\ heap = snap.heap
         /\ map.numOps = snap.map.numOps + 1

\* C19 witness: a get has found its key in the second entry of a chain
C19_Witness ==
  \E t \in Threads :
    /\ pc[t] = "get_unlock"
    /\ loc[t].retval # INT_MAX
    /\ Len(Bucket(Before, loc[t].key)) = 2
    /\ heap[Bucket(Before, loc[t].key)[2]].key = loc[t].key

\* C20: a del that found its key has, when it is about to unlock, freed that
\* one entry: every other entry has its key and value, every chain is the
\* chain found at the lock acquisition without the freed entry, in the same
\* order, so other buckets are untouched; from the unlink on the entry is in
\* no chain, and no bucket head or live entry ever points at freed storage
C20_DelFrame ==
  /\ \A t \in Threads :
       /\ pc[t] = "del_free" =>
            \A j \in DOMAIN AllEntries(Now) : AllEntries(Now)[j] # loc[t].temp
       /\ pc[t] = "del_unlock" /\ loc[t].temp # NULL =>
            /\ snap.heap[loc[t].temp].key = loc[t].key
            /\ DOMAIN heap = DOMAIN snap.heap \ {loc[t].temp}
            /\ \A x \in DOMAIN heap :
                 heap[x].key = snap.heap[x].key /\ heap[x].value = snap.heap[x].value
            /\ \A i \in DOMAIN map.table :
                 /\ Chain(heap, map.table[i]) =
                      SelectSeq(Chain(snap.heap, snap.map.table[i]),
                                LAMBDA x : x # loc[t].temp)
                 /\ i # loc[t].index => map.table[i] = snap.map.table[i]
  /\ \A i \in DOMAIN map.table : map.table[i] \in DOMAIN heap \cup {NULL}
  /\ \A x \in DOMAIN heap : heap[x].next \in DOMAIN heap \cup {NULL}

\* C20 witness: a del has removed the middle entry of a chain of three
C20_Witness ==
  \E t \in Threads :
    /\ pc[t] = "del_unlock"
    /\ loc[t].temp # NULL
    /\ Len(Bucket(Before, loc[t].key)) = 3
    /\ Bucket(Before, loc[t].key)[2] = loc[t].temp

====
